---- MODULE Spec2Model ----
(***************************************************************************)
(* ContractDefinition of solc-typed-ast                                    *)
(* (src/src/ast/implementation/declaration/contract_definition.ts):        *)
(* the polymorphic documentation accessor over the owned-children list,    *)
(* the scope / linearization lookups through the node's context, the      *)
(* child views and the interface id; and the native compiler of            *)
(* src/src/compile/kinds/native.ts: NativeCompiler.compile over a child    *)
(* process, and getNativeCompilerForVersion over the cache directory.      *)
(*                                                                         *)
(* Objects are named by strings (an object reference); a node's class and  *)
(* id are read from the tables NodeType and NodeId.  ASTNodeWithChildren   *)
(* and ASTContext live in other files of the repository: their operations  *)
(* follow the design document (sections 4.1 and 4.2).                      *)
(***************************************************************************)
EXTENDS Integers, Sequences, FiniteSets, TLC

VARIABLES
    ownChildren,             \* contract -> sequence of child nodes
    docString,               \* contract -> private docString (string or undefined)
    parent,                  \* node -> owning contract, or NoParent
    scope,                   \* contract -> id of its source unit
    kind,                    \* contract -> ContractKind
    linearizedBaseContracts, \* contract -> sequence of ids
    usedErrors,              \* contract -> sequence of ids
    registry,                \* context -> (id -> node), the id map of each ASTContext
    context,                 \* node -> the context it is registered in, or NoContext
    child,                   \* the compiler process of NativeCompiler.compile and its promise
    host,                    \* what os.arch() and os.type() return
    cache,                   \* the cache directory, the network and the calls in flight
    last                     \* the call that produced this state, its argument and outcome

vars == <<ownChildren, docString, parent, scope, kind, linearizedBaseContracts,
          usedErrors, registry, context, child, host, cache, last>>

treeVars == <<ownChildren, docString, parent>>
nativeVars == <<child, host, cache>>

(***************************************************************************)
(* Bounds                                                                  *)
(***************************************************************************)
MaxChildren == 3
MaxCtorChildren == 1

(***************************************************************************)
(* Objects                                                                 *)
(***************************************************************************)
Contracts == {"c1", "c2", "c3"}
SourceUnits == {"u1", "u2", "u3", "u4", "u5", "u6"}
Docs == {"D1", "D2"}
Functions == {"F1", "F2", "F3"}
Variables == {"V1", "V2"}
InheritanceSpecifiers == {"I1"}
Modifiers == {"M1"}
Events == {"Ev1"}
Errors == {"Er1", "Er2"}
UsingForDirectives == {"UF1"}
Structs == {"S1"}
Enums == {"En1"}
ChildNodes == Docs \cup Functions \cup Variables \cup InheritanceSpecifiers
              \cup Modifiers \cup Events \cup Errors \cup UsingForDirectives
              \cup Structs \cup Enums
Nodes == Contracts \cup SourceUnits \cup ChildNodes
Contexts == {"R1", "R2"}

NoParent == "noParent"
NoContext == "noContext"

\* The class of each object (what `instanceof` tests).
NodeType == [n \in Nodes |->
    IF n \in Contracts THEN "ContractDefinition"
    ELSE IF n \in SourceUnits THEN "SourceUnit"
    ELSE IF n \in Docs THEN "StructuredDocumentation"
    ELSE IF n \in Functions THEN "FunctionDefinition"
    ELSE IF n \in InheritanceSpecifiers THEN "InheritanceSpecifier"
    ELSE IF n \in Modifiers THEN "ModifierDefinition"
    ELSE IF n \in Events THEN "EventDefinition"
    ELSE IF n \in Errors THEN "ErrorDefinition"
    ELSE IF n \in UsingForDirectives THEN "UsingForDirective"
    ELSE IF n \in Structs THEN "StructDefinition"
    ELSE IF n \in Enums THEN "EnumDefinition"
    ELSE "VariableDeclaration"]

\* The nodes for which `instanceof cls` holds.
InstancesOf(cls) == {n \in Nodes : NodeType[n] = cls}

\* VariableDeclaration.stateVariable: V1 is a state variable, V2 is a
\* VariableDeclaration of another sort (a parameter or a local).
stateVariable == [V1 |-> TRUE, V2 |-> FALSE]

\* ASTNode.id.  c3 and u3 belong to a second, independently loaded program
\* whose ids coincide with those of c1 and u1.
NodeId == [c1 |-> 1, c2 |-> 2, c3 |-> 1,
           u1 |-> 10, u2 |-> 11, u3 |-> 10, u4 |-> 12, u5 |-> 13, u6 |-> 11,
           D1 |-> 21, D2 |-> 22,
           F1 |-> 31, F2 |-> 32, F3 |-> 33,
           V1 |-> 41, V2 |-> 42,
           I1 |-> 51, M1 |-> 52, Ev1 |-> 53, Er1 |-> 54, Er2 |-> 55,
           UF1 |-> 56, S1 |-> 57, En1 |-> 58]

(***************************************************************************)
(* Values of type  string | StructuredDocumentation | undefined            *)
(***************************************************************************)
Undefined == [k |-> "undefined", v |-> ""]
Str(s) == [k |-> "string", v |-> s]
Ref(n) == [k |-> "node", v |-> n]

DocStrings == {"", "desc"}
DocValues == {Undefined} \cup {Str(s) : s \in DocStrings} \cup {Ref(d) : d \in Docs}

\* value instanceof StructuredDocumentation
IsStructuredDocumentation(value) ==
    value.k = "node" /\ NodeType[value.v] = "StructuredDocumentation"

(***************************************************************************)
(* Sequence helpers (Array.prototype.indexOf / find / filter / splice)     *)
(***************************************************************************)
\* The positions of seq that hold a node of the set S.
Positions(seq, S) == {i \in 1..Len(seq) : seq[i] \in S}

Min(S) == CHOOSE m \in S : \A o \in S : m <= o

\* indexOf: the first position of x, 0 when absent (-1 in the source).
IndexOf(seq, x) == IF Positions(seq, {x}) = {} THEN 0 ELSE Min(Positions(seq, {x}))

\* splice(index, 1)
RemoveAt(seq, i) == SubSeq(seq, 1, i - 1) \o SubSeq(seq, i + 1, Len(seq))

\* filter(node => node in S), order kept
RECURSIVE Filter(_, _)
Filter(seq, S) ==
    IF seq = <<>> THEN <<>>
    ELSE IF Head(seq) \in S THEN <<Head(seq)>> \o Filter(Tail(seq), S)
    ELSE Filter(Tail(seq), S)

(***************************************************************************)
(* A contract's tree state as a value: t.oc its ownChildren, t.ds its      *)
(* docString, t.par the parent links of all nodes.                         *)
(***************************************************************************)
Tree(self) == [oc |-> ownChildren[self], ds |-> docString[self], par |-> parent]

EmptyTree == [oc |-> <<>>, ds |-> Undefined, par |-> [n \in ChildNodes |-> NoParent]]

\* ASTNodeWithChildren.appendChild
appendChild(t, self, node) ==
    [t EXCEPT !.oc = Append(@, node), !.par = [@ EXCEPT ![node] = self]]

\* ASTNodeWithChildren.insertAtBeginning
insertAtBeginning(t, self, node) ==
    [t EXCEPT !.oc = <<node>> \o @, !.par = [@ EXCEPT ![node] = self]]

\* ASTNodeWithChildren.replaceChild; the caller has checked that oldNode is a child.
replaceChild(t, self, newNode, oldNode) ==
    [t EXCEPT !.oc = [@ EXCEPT ![IndexOf(t.oc, oldNode)] = newNode],
              !.par = [@ EXCEPT ![oldNode] = NoParent, ![newNode] = self]]

\* ASTNodeWithChildren.removeChild; the caller has checked that node is a child.
removeChild(t, self, node) ==
    [t EXCEPT !.oc = RemoveAt(@, IndexOf(t.oc, node)),
              !.par = [@ EXCEPT ![node] = NoParent]]

(***************************************************************************)
(* ContractDefinition.documentation                                        *)
(***************************************************************************)
\* get documentation(), on a tree value
documentationOf(t) ==
    IF t.ds # Undefined THEN t.ds
    ELSE IF Positions(t.oc, Docs) = {} THEN Undefined
    ELSE Ref(t.oc[Min(Positions(t.oc, Docs))])

documentation(self) == documentationOf(Tree(self))

\* set documentation(value) that forgets removeChild(old) when a string is assigned
setDocumentationKeepsOld(t, self, value) ==
    LET old == documentationOf(t) IN
    IF IsStructuredDocumentation(value)
    THEN LET t1 == [t EXCEPT !.ds = Undefined] IN
         IF IsStructuredDocumentation(old)
         THEN IF value # old THEN replaceChild(t1, self, value.v, old.v) ELSE t1
         ELSE insertAtBeginning(t1, self, value.v)
    ELSE [t EXCEPT !.ds = value]

\* set documentation(value) that appends a new documentation node instead of
\* inserting it at the beginning
setDocumentationAppends(t, self, value) ==
    LET old == documentationOf(t) IN
    IF IsStructuredDocumentation(value)
    THEN LET t1 == [t EXCEPT !.ds = Undefined] IN
         IF IsStructuredDocumentation(old)
         THEN IF value # old THEN replaceChild(t1, self, value.v, old.v) ELSE t1
         ELSE appendChild(t1, self, value.v)
    ELSE LET t1 == IF IsStructuredDocumentation(old) THEN removeChild(t, self, old.v) ELSE t
         IN  [t1 EXCEPT !.ds = value]

\* set documentation(value) that does not clear docString when a node is assigned
setDocumentationKeepsString(t, self, value) ==
    LET old == documentationOf(t) IN
    IF IsStructuredDocumentation(value)
    THEN IF IsStructuredDocumentation(old)
         THEN IF value # old THEN replaceChild(t, self, value.v, old.v) ELSE t
         ELSE insertAtBeginning(t, self, value.v)
    ELSE LET t1 == IF IsStructuredDocumentation(old) THEN removeChild(t, self, old.v) ELSE t
         IN  [t1 EXCEPT !.ds = value]

\* set documentation(value) that does not look at the old value when a node is assigned
setDocumentationAlwaysInserts(t, self, value) ==
    LET old == documentationOf(t) IN
    IF IsStructuredDocumentation(value)
    THEN insertAtBeginning([t EXCEPT !.ds = Undefined], self, value.v)
    ELSE LET t1 == IF IsStructuredDocumentation(old) THEN removeChild(t, self, old.v) ELSE t
         IN  [t1 EXCEPT !.ds = value]

\* set documentation(value) that puts a new documentation node before the old
\* one instead of replacing it
setDocumentationLeavesOld(t, self, value) ==
    LET old == documentationOf(t) IN
    IF IsStructuredDocumentation(value)
    THEN LET t1 == [t EXCEPT !.ds = Undefined] IN
         IF IsStructuredDocumentation(old)
         THEN IF value # old THEN insertAtBeginning(t1, self, value.v) ELSE t1
         ELSE insertAtBeginning(t1, self, value.v)
    ELSE LET t1 == IF IsStructuredDocumentation(old) THEN removeChild(t, self, old.v) ELSE t
         IN  [t1 EXCEPT !.ds = value]

\* set documentation(value), on a tree value
setDocumentation(t, self, value) ==
    LET old == documentationOf(t) IN
    IF IsStructuredDocumentation(value)
    THEN LET t1 == [t EXCEPT !.ds = Undefined] IN
         IF IsStructuredDocumentation(old)
         THEN IF value # old THEN replaceChild(t1, self, value.v, old.v) ELSE t1
         ELSE insertAtBeginning(t1, self, value.v)
    ELSE LET t1 == IF IsStructuredDocumentation(old) THEN removeChild(t, self, old.v) ELSE t
         IN  [t1 EXCEPT !.ds = value]

\* The part of the constructor that builds the tree: the children are
\* appended in order, then the documentation is assigned.
RECURSIVE appendAll(_, _, _)
appendAll(t, self, children) ==
    IF children = <<>> THEN t
    ELSE appendAll(appendChild(t, self, Head(children)), self, Tail(children))

constructTree(self, children, doc) ==
    setDocumentation(appendAll(EmptyTree, self, children), self, doc)

(***************************************************************************)
(* ASTContext: register / locate / contains, and ASTNode.requiredContext   *)
(***************************************************************************)
Unresolved == "unresolved"

\* ASTContext.locate: the node registered under id; fails when there is none.
locate(ctx, id) ==
    IF id \in DOMAIN registry[ctx] THEN registry[ctx][id] ELSE Unresolved

\* ASTContext.contains: the node's id is registered in this context.
contains(ctx, node) == NodeId[node] \in DOMAIN registry[ctx]

\* ASTNode.requiredContext: the node's context; fails when it has none.
requiredContext(node) == context[node]

(***************************************************************************)
(* ContractDefinition.vScope, vLinearizedBaseContracts, isSubclassOf       *)
(***************************************************************************)
\* get vScope()
vScope(self) == locate(requiredContext(self), scope[self])

\* set vScope(value) without the `contains` test
vScopeSetUnchecked(self, value) == [scope |-> NodeId[value], err |-> ""]

\* set vScope(value): the id that `scope` holds afterwards, and the error thrown.
vScopeSet(self, value) ==
    IF ~contains(requiredContext(self), value)
    THEN [scope |-> scope[self], err |-> "CrossContextError"]
    ELSE [scope |-> NodeId[value], err |-> ""]

\* Array.prototype.map(id => context.locate(id))
RECURSIVE locateAll(_, _)
locateAll(ctx, ids) ==
    IF ids = <<>> THEN <<>>
    ELSE <<locate(ctx, Head(ids))>> \o locateAll(ctx, Tail(ids))

\* get vLinearizedBaseContracts() that walks the ids from the last to the first
RECURSIVE locateAllReversed(_, _)
locateAllReversed(ctx, ids) ==
    IF ids = <<>> THEN <<>>
    ELSE locateAllReversed(ctx, Tail(ids)) \o <<locate(ctx, Head(ids))>>

vLinearizedBaseContractsReversed(self) ==
    locateAllReversed(requiredContext(self), linearizedBaseContracts[self])

\* get vLinearizedBaseContracts()
vLinearizedBaseContracts(self) ==
    locateAll(requiredContext(self), linearizedBaseContracts[self])

\* Array.prototype.includes: membership by object identity
Includes(seq, x) == \E i \in 1..Len(seq) : seq[i] = x

\* isSubclassOf(other) that compares ids instead of objects
isSubclassOfById(self, other) ==
    \E i \in 1..Len(vLinearizedBaseContracts(self)) :
        /\ vLinearizedBaseContracts(self)[i] # Unresolved
        /\ NodeId[vLinearizedBaseContracts(self)[i]] = NodeId[other]

\* isSubclassOf(other) that looks among the proper bases only
isSubclassOfProper(self, other) == Includes(Tail(vLinearizedBaseContracts(self)), other)

\* isSubclassOf(other)
isSubclassOf(self, other) == Includes(vLinearizedBaseContracts(self), other)

(***************************************************************************)
(* The record of the last call                                             *)
(***************************************************************************)
Call(op, self, arg, old, err, ret) ==
    [op |-> op, self |-> self, arg |-> arg, old |-> old, err |-> err, ret |-> ret]

Commit(self, t) ==
    /\ ownChildren' = [ownChildren EXCEPT ![self] = t.oc]
    /\ docString' = [docString EXCEPT ![self] = t.ds]
    /\ parent' = t.par

(***************************************************************************)
(* Operations on the tree of a contract                                    *)
(***************************************************************************)
AppendChild(self, node) ==
    /\ Len(ownChildren[self]) < MaxChildren
    /\ Commit(self, appendChild(Tree(self), self, node))
    /\ last' = Call("appendChild", self, Ref(node), Undefined, "", FALSE)
    /\ UNCHANGED <<scope, kind, linearizedBaseContracts, usedErrors, nativeVars, registry, context>>

InsertAtBeginning(self, node) ==
    /\ Len(ownChildren[self]) < MaxChildren
    /\ Commit(self, insertAtBeginning(Tree(self), self, node))
    /\ last' = Call("insertAtBeginning", self, Ref(node), Undefined, "", FALSE)
    /\ UNCHANGED <<scope, kind, linearizedBaseContracts, usedErrors, nativeVars, registry, context>>

ReplaceChild(self, newNode, oldNode) ==
    /\ IF IndexOf(ownChildren[self], oldNode) = 0
       THEN /\ UNCHANGED treeVars
            /\ last' = Call("replaceChild", self, Ref(newNode), Ref(oldNode), "NotAChild", FALSE)
       ELSE /\ Commit(self, replaceChild(Tree(self), self, newNode, oldNode))
            /\ last' = Call("replaceChild", self, Ref(newNode), Ref(oldNode), "", FALSE)
    /\ UNCHANGED <<scope, kind, linearizedBaseContracts, usedErrors, nativeVars, registry, context>>

RemoveChild(self, node) ==
    /\ IF IndexOf(ownChildren[self], node) = 0
       THEN /\ UNCHANGED treeVars
            /\ last' = Call("removeChild", self, Ref(node), Undefined, "NotAChild", FALSE)
       ELSE /\ Commit(self, removeChild(Tree(self), self, node))
            /\ last' = Call("removeChild", self, Ref(node), Undefined, "", FALSE)
    /\ UNCHANGED <<scope, kind, linearizedBaseContracts, usedErrors, nativeVars, registry, context>>

\* documentation = value;  last.old is the setter's local `old`.
SetDocumentation(self, value) ==
    /\ Len(setDocumentation(Tree(self), self, value).oc) <= MaxChildren
    /\ Commit(self, setDocumentation(Tree(self), self, value))
    /\ last' = Call("documentation", self, value, documentation(self), "", FALSE)
    /\ UNCHANGED <<scope, kind, linearizedBaseContracts, usedErrors, nativeVars, registry, context>>

(***************************************************************************)
(* The loaded program: two contexts.  R1 holds c1, c2 and the source units *)
(* u1, u2; R2 holds c3 and u3, u4 under ids that partly coincide with      *)
(* those of R1.  u5 and u6 are built but not registered yet; the id of u6   *)
(* is taken in R1.                                                         *)
(***************************************************************************)
InitContext == [c1 |-> "R1", c2 |-> "R1", c3 |-> "R2",
                u1 |-> "R1", u2 |-> "R1", u3 |-> "R2", u4 |-> "R2",
                u5 |-> NoContext, u6 |-> NoContext,
                D1 |-> "R1", D2 |-> "R1",
                F1 |-> "R1", F2 |-> "R1", F3 |-> "R1",
                V1 |-> "R1", V2 |-> "R1",
                I1 |-> "R1", M1 |-> "R1", Ev1 |-> "R1", Er1 |-> "R1", Er2 |-> "R1",
                UF1 |-> "R1", S1 |-> "R1", En1 |-> "R1"]

InitRegistry == [r \in Contexts |->
    [i \in {NodeId[n] : n \in {m \in Nodes : InitContext[m] = r}} |->
        CHOOSE n \in Nodes : InitContext[n] = r /\ NodeId[n] = i]]

\* The linearizations the compiler can have produced: own id first, then the
\* ids of base contracts of the same program.
Linearizations == [c1 |-> {<<1>>, <<1, 2>>}, c2 |-> {<<2>>}, c3 |-> {<<1>>}]

\* The ids of the source units of a contract's own program.
Scopes == [c1 |-> {10, 11}, c2 |-> {10, 11}, c3 |-> {10, 12}]

ContractKinds == {"contract", "interface", "library"}

\* The state of the compiler side while only the AST is exercised: no
\* process spawned, an empty cache directory, no call in flight.
NoValue == [k |-> "undefined", v |-> <<>>]
NoChild == [phase |-> "none", out |-> <<>>, err |-> <<>>, code |-> "",
            stdout |-> <<>>, stderr |-> <<>>,
            promise |-> "none", value |-> NoValue, settled |-> 0]
ColdCache == [files |-> <<>>, calls |-> <<>>]
NativeIdle ==
    /\ child = NoChild
    /\ host = [arch |-> "x64", type |-> "Linux", root |-> FALSE]
    /\ cache = ColdCache

InitProgram ==
    /\ registry = InitRegistry
    /\ context = InitContext
    /\ linearizedBaseContracts \in [Contracts -> UNION {Linearizations[c] : c \in Contracts}]
    /\ \A c \in Contracts : linearizedBaseContracts[c] \in Linearizations[c]
    /\ scope \in [Contracts -> UNION {Scopes[c] : c \in Contracts}]
    /\ \A c \in Contracts : scope[c] \in Scopes[c]
    /\ NativeIdle

(***************************************************************************)
(* Spec: one contract, c1, built by its constructor and then mutated       *)
(* through the child operations and the documentation setter.              *)
(***************************************************************************)
TreePool == {"D1", "D2", "F1"}

RECURSIVE SeqsUpTo(_, _)
SeqsUpTo(S, n) ==
    IF n = 0 THEN {<<>>}
    ELSE LET shorter == SeqsUpTo(S, n - 1)
         IN  shorter \cup {Append(q, x) : q \in {p \in shorter : Len(p) = n - 1}, x \in S}

InitTree(self, pool, docs) ==
    \E children \in SeqsUpTo(pool, MaxCtorChildren), doc \in docs :
        LET t == constructTree(self, children, doc) IN
        /\ ownChildren = [c \in Contracts |-> IF c = self THEN t.oc ELSE <<>>]
        /\ docString = [c \in Contracts |-> IF c = self THEN t.ds ELSE Undefined]
        /\ parent = t.par
        /\ last = Call("new", self, doc, Undefined, "", children)

Init ==
    /\ InitTree("c1", TreePool, DocValues)
    /\ InitProgram
    /\ scope = [c \in Contracts |-> 10]
    /\ linearizedBaseContracts["c1"] = <<1>>
    /\ kind = [c \in Contracts |-> "contract"]
    /\ usedErrors = [c \in Contracts |-> <<>>]

Next ==
    \/ \E n \in TreePool : AppendChild("c1", n)
    \/ \E n \in TreePool : InsertAtBeginning("c1", n)
    \/ \E n, o \in TreePool : ReplaceChild("c1", n, o)
    \/ \E n \in TreePool : RemoveChild("c1", n)
    \/ \E v \in DocValues : SetDocumentation("c1", v)

Spec == Init /\ [][Next]_vars

(***************************************************************************)
(* Properties of the documentation accessor (under Spec)                   *)
(***************************************************************************)
\* The positions of the StructuredDocumentation nodes among c's ownChildren.
DocPositions(c) == Positions(ownChildren[c], Docs)

\* The step is an assignment  documentation = value  on c1.
DocAssigned == last'.op = "documentation" /\ last'.self = "c1"

\* C1 as stated: after documentation = s with s a string, the getter returns s
\* and no StructuredDocumentation node remains among ownChildren.
C1_AsStated ==
    (last.op = "documentation" /\ last.arg.k = "string")
        => (documentation("c1") = last.arg /\ DocPositions("c1") = {})

\* C1, amended: after documentation = s with s a string, the getter returns s
\* and the node the getter returned before (if it was one) has lost one
\* occurrence among ownChildren; no StructuredDocumentation node remains when,
\* before the assignment, ownChildren held none, or docString was undefined
\* and ownChildren held exactly one.
C1_StringAssigned ==
    [][(DocAssigned /\ last'.arg.k = "string") =>
        /\ documentation("c1")' = last'.arg
        /\ Cardinality(DocPositions("c1")') =
               Cardinality(DocPositions("c1"))
                   - (IF IsStructuredDocumentation(last'.old) THEN 1 ELSE 0)
        /\ (\/ DocPositions("c1") = {}
            \/ (docString["c1"] = Undefined /\ Cardinality(DocPositions("c1")) = 1))
              => DocPositions("c1")' = {}]_vars

\* A string has replaced a documentation node, and no such node is left.
C1_Witness ==
    /\ last.op = "documentation" /\ last.arg.k = "string"
    /\ IsStructuredDocumentation(last.old)
    /\ documentation("c1") = last.arg
    /\ DocPositions("c1") = {}
    /\ ownChildren["c1"] # <<>>

\* C2 as stated: after documentation = D with D a node, the getter returns D
\* and D is the first of ownChildren.
C2_AsStated ==
    (last.op = "documentation" /\ IsStructuredDocumentation(last.arg))
        => (documentation("c1") = last.arg /\ ownChildren["c1"][1] = last.arg.v)

\* C2, amended: after documentation = D with D a node, the getter returns D;
\* D stands where the node the getter returned before stood (the list keeps its
\* length), and is the first of ownChildren when the getter returned a string
\* or undefined before.
C2_NodeAssigned ==
    [][(DocAssigned /\ IsStructuredDocumentation(last'.arg)) =>
        /\ documentation("c1")' = last'.arg
        /\ IF IsStructuredDocumentation(last'.old)
           THEN /\ Len(ownChildren["c1"]') = Len(ownChildren["c1"])
                /\ ownChildren["c1"]'[IndexOf(ownChildren["c1"], last'.old.v)] = last'.arg.v
           ELSE /\ Len(ownChildren["c1"]') = Len(ownChildren["c1"]) + 1
                /\ ownChildren["c1"]'[1] = last'.arg.v]_vars

\* A node has replaced a string and stands first, before another child.
C2_Witness ==
    /\ last.op = "documentation" /\ IsStructuredDocumentation(last.arg)
    /\ last.old.k = "string"
    /\ documentation("c1") = last.arg
    /\ Len(ownChildren["c1"]) >= 2
    /\ ownChildren["c1"][1] = last.arg.v

\* No plain-text documentation is held while a StructuredDocumentation node is
\* among the children.
OneRepresentation(c) == docString[c] # Undefined => DocPositions(c) = {}

\* C3 as stated: in every reachable state the node holds no plain-text
\* documentation while a StructuredDocumentation node is among its ownChildren.
C3_AsStated == \A c \in Contracts : OneRepresentation(c)

\* OneRepresentation, and at most one documentation node among the children.
DocConsistent(c) == OneRepresentation(c) /\ Cardinality(DocPositions(c)) <= 1

\* The step hands a StructuredDocumentation node to appendChild,
\* insertAtBeginning or replaceChild.
DocNodeInserted ==
    /\ last'.op \in {"appendChild", "insertAtBeginning", "replaceChild"}
    /\ last'.arg.v \in Docs

\* C3, amended: the constructor, given children with at most one
\* StructuredDocumentation node among them, leaves no plain-text documentation
\* beside a documentation child and at most one such child; every documentation
\* assignment, every removeChild and every insertion or replacement whose new
\* node is not a StructuredDocumentation keeps it so.
C3_SetterKeepsOneRepresentation ==
    /\ []((last.op = "new" /\ Cardinality(Positions(last.ret, Docs)) <= 1)
            => DocConsistent("c1"))
    /\ [][(DocConsistent("c1") /\ ~DocNodeInserted) => DocConsistent("c1")']_vars

\* A string was assigned over a documentation node that stood among other
\* children, and the string is all that is left.
C3_Witness ==
    /\ last.op = "documentation" /\ last.arg.k = "string"
    /\ IsStructuredDocumentation(last.old)
    /\ docString["c1"] = last.arg
    /\ DocConsistent("c1")
    /\ Len(ownChildren["c1"]) >= 2

\* C4: an assignment of a string over a string, or of the node the getter
\* returns already, changes neither ownChildren nor any parent link.
C4_NoOpRows ==
    [][(/\ DocAssigned
        /\ \/ (last'.arg.k = "string" /\ last'.old.k = "string")
           \/ (IsStructuredDocumentation(last'.arg) /\ last'.arg = last'.old))
        => (ownChildren' = ownChildren /\ parent' = parent)]_vars

\* The node the getter returned was assigned again, with other children around.
C4_Witness ==
    /\ last.op = "documentation"
    /\ IsStructuredDocumentation(last.arg) /\ last.arg = last.old
    /\ Len(ownChildren["c1"]) >= 2
    /\ ownChildren["c1"][1] # last.arg.v

(***************************************************************************)
(* Operations on the contexts and the cross-references of a contract       *)
(***************************************************************************)
\* ASTContext.register(node), for a node that is in no context yet.
Register(ctx, node) ==
    /\ context[node] = NoContext
    /\ IF NodeId[node] \in DOMAIN registry[ctx]
       THEN /\ UNCHANGED <<registry, context>>
            /\ last' = Call("register", ctx, Ref(node), Undefined, "DuplicateId", FALSE)
       ELSE /\ registry' = [registry EXCEPT ![ctx] = @ @@ (NodeId[node] :> node)]
            /\ context' = [context EXCEPT ![node] = ctx]
            /\ last' = Call("register", ctx, Ref(node), Undefined, "", FALSE)
    /\ UNCHANGED <<ownChildren, docString, parent, scope, kind, linearizedBaseContracts, usedErrors, nativeVars>>

\* self.vScope = value
SetVScope(self, value) ==
    /\ context[self] # NoContext
    /\ scope' = [scope EXCEPT ![self] = vScopeSet(self, value).scope]
    /\ last' = Call("vScope", self, Ref(value), Undefined, vScopeSet(self, value).err, FALSE)
    /\ UNCHANGED <<ownChildren, docString, parent, kind, linearizedBaseContracts, usedErrors, nativeVars,
                   registry, context>>

\* self.isSubclassOf(other); locate fails the call when an id of the
\* linearization is not registered.
CallIsSubclassOf(self, other) ==
    /\ context[self] # NoContext
    /\ IF Includes(vLinearizedBaseContracts(self), Unresolved)
       THEN last' = Call("isSubclassOf", self, Ref(other), Undefined, "UnresolvedReference", FALSE)
       ELSE last' = Call("isSubclassOf", self, Ref(other), Undefined, "", isSubclassOf(self, other))
    /\ UNCHANGED <<ownChildren, docString, parent, scope, kind, linearizedBaseContracts, usedErrors, nativeVars,
                   registry, context>>

\* read self.vLinearizedBaseContracts
GetVLinearizedBaseContracts(self) ==
    /\ context[self] # NoContext
    /\ IF Includes(vLinearizedBaseContracts(self), Unresolved)
       THEN last' = Call("vLinearizedBaseContracts", self, Undefined, Undefined,
                         "UnresolvedReference", <<>>)
       ELSE last' = Call("vLinearizedBaseContracts", self, Undefined, Undefined,
                         "", vLinearizedBaseContracts(self))
    /\ UNCHANGED <<ownChildren, docString, parent, scope, kind, linearizedBaseContracts, usedErrors, nativeVars,
                   registry, context>>

(***************************************************************************)
(* SpecContext: the loaded program; source units are registered, scopes    *)
(* are reassigned and isSubclassOf is asked of every pair of contracts.    *)
(***************************************************************************)
InitContextSpec ==
    /\ InitProgram
    /\ ownChildren = [c \in Contracts |-> <<>>]
    /\ docString = [c \in Contracts |-> Undefined]
    /\ parent = [n \in ChildNodes |-> NoParent]
    /\ kind = [c \in Contracts |-> "contract"]
    /\ usedErrors = [c \in Contracts |-> <<>>]
    /\ last = Call("new", "", Undefined, Undefined, "", <<>>)

NextContext ==
    \/ \E r \in Contexts, n \in SourceUnits : Register(r, n)
    \/ \E c \in Contracts, u \in SourceUnits : SetVScope(c, u)
    \/ \E c, o \in Contracts : CallIsSubclassOf(c, o)
    \/ \E c \in Contracts : GetVLinearizedBaseContracts(c)

SpecContext == InitContextSpec /\ [][NextContext]_vars

(***************************************************************************)
(* Properties of vScope, vLinearizedBaseContracts and isSubclassOf         *)
(* (under SpecContext)                                                     *)
(***************************************************************************)
\* The step is an assignment  c.vScope = value.
VScopeAssigned == last'.op = "vScope"

\* scope resolves through locate in the contract's own context.
ScopeResolves(c) == vScope(c) # Unresolved

C6_SelfFirst ==
    \A c \in Contracts : context[c] # NoContext =>
        /\ Len(vLinearizedBaseContracts(c)) = Len(linearizedBaseContracts[c])
        /\ Len(vLinearizedBaseContracts(c)) >= 1
        /\ \A i \in 1..Len(linearizedBaseContracts[c]) :
              /\ vLinearizedBaseContracts(c)[i] \in Contracts
              /\ NodeId[vLinearizedBaseContracts(c)[i]] = linearizedBaseContracts[c][i]
              /\ context[vLinearizedBaseContracts(c)[i]] = context[c]
        /\ linearizedBaseContracts[c][1] = NodeId[c]
        /\ vLinearizedBaseContracts(c)[1] = c
        /\ (last.op = "vLinearizedBaseContracts" /\ last.self = c)
              => (last.err = "" /\ Len(last.ret) >= 1 /\ last.ret[1] = c)

\* A contract with a base: its linearization holds itself and then the base.
C6_Witness ==
    /\ Len(linearizedBaseContracts["c1"]) = 2
    /\ last.op = "vLinearizedBaseContracts" /\ last.self = "c1"
    /\ last.ret = <<"c1", "c2">>
    /\ context["u5"] = "R1"

\* The id of `other` occurs in c's linearizedBaseContracts.
IdOccurs(c, other) ==
    \E i \in 1..Len(linearizedBaseContracts[c]) :
        linearizedBaseContracts[c][i] = NodeId[other]

\* C7 as stated: c.isSubclassOf(other) is true exactly when other's id occurs
\* in c.linearizedBaseContracts, whatever context other is registered in.
C7_AsStated ==
    last.op = "isSubclassOf" =>
        (last.err = "" /\ (last.ret <=> IdOccurs(last.self, last.arg.v)))

\* C7, amended: for other registered in c's own context, c.isSubclassOf(other)
\* is true exactly when other's id occurs in c.linearizedBaseContracts; for
\* other registered in a different context it is false, also when other's id
\* occurs there.
C7_SameContextById ==
    last.op = "isSubclassOf" =>
        /\ last.err = ""
        /\ IF context[last.arg.v] = context[last.self]
           THEN last.ret <=> IdOccurs(last.self, last.arg.v)
           ELSE last.ret = FALSE

\* c1 was asked about its base c2 and answered true.
C7_Witness ==
    /\ last.op = "isSubclassOf" /\ last.self = "c1" /\ last.arg.v = "c2"
    /\ IdOccurs("c1", "c2")
    /\ last.ret = TRUE

\* C8: c.isSubclassOf(c) returns true for every registered contract c.
C8_Reflexive ==
    /\ \A c \in Contracts : context[c] # NoContext => isSubclassOf(c, c)
    /\ (last.op = "isSubclassOf" /\ last.arg.v = last.self)
          => (last.err = "" /\ last.ret = TRUE)

\* A contract with a base was asked about itself.
C8_Witness ==
    /\ last.op = "isSubclassOf" /\ last.arg.v = last.self
    /\ Len(linearizedBaseContracts[last.self]) = 2
    /\ last.ret = TRUE

(***************************************************************************)
(* ContractDefinition.vFunctions and interfaceId                           *)
(*                                                                         *)
(* A string of hex digits is a sequence of one-character strings.  A       *)
(* BigInt is the sequence of its base-16 digits, most significant first,   *)
(* without leading zeros (zero is the empty sequence).                     *)
(***************************************************************************)
HexChars == <<"0", "1", "2", "3", "4", "5", "6", "7",
              "8", "9", "a", "b", "c", "d", "e", "f">>

HexValue(ch) == (CHOOSE i \in 1..16 : HexChars[i] = ch) - 1

\* FunctionDefinition.canonicalSignatureHash: the 4-byte selector, 8 hex digits.
canonicalSignatureHash ==
    [F1 |-> <<"a", "a", "b", "b", "c", "c", "d", "d">>,
     F2 |-> <<"1", "1", "2", "2", "3", "3", "4", "4">>,
     F3 |-> <<"a", "a", "b", "b", "c", "c", "d", "e">>]

RECURSIVE StripZeros(_)
StripZeros(digits) ==
    IF digits = <<>> THEN <<>>
    ELSE IF Head(digits) = 0 THEN StripZeros(Tail(digits))
    ELSE digits

\* BigInt("0x" + str)
BigIntFromHex(str) == StripZeros([i \in 1..Len(str) |-> HexValue(str[i])])

\* x ^ y on two hex digits, bit by bit
DigitXor(x, y) ==
    LET bit(v, w) == (v \div w) % 2 IN
    ((bit(x, 1) + bit(y, 1)) % 2)
    + 2 * ((bit(x, 2) + bit(y, 2)) % 2)
    + 4 * ((bit(x, 4) + bit(y, 4)) % 2)
    + 8 * ((bit(x, 8) + bit(y, 8)) % 2)

PadZeros(digits, n) == [i \in 1..(n - Len(digits)) |-> 0] \o digits

\* a ^ b on BigInts
BigIntXor(a, b) ==
    LET n == IF Len(a) >= Len(b) THEN Len(a) ELSE Len(b)
        pa == PadZeros(a, n)
        pb == PadZeros(b, n)
    IN  StripZeros([i \in 1..n |-> DigitXor(pa[i], pb[i])])

\* BigInt.prototype.toString(16)
BigIntToString16(a) ==
    IF a = <<>> THEN <<"0">> ELSE [i \in 1..Len(a) |-> HexChars[a[i] + 1]]

\* String.prototype.padStart that pads nothing
padStartNothing(str, n, ch) == str

\* String.prototype.padStart(n, ch)
padStart(str, n, ch) ==
    IF Len(str) >= n THEN str ELSE [i \in 1..(n - Len(str)) |-> ch] \o str

\* the left fold of ^ over values, from acc
RECURSIVE FoldXor(_, _)
FoldXor(acc, values) ==
    IF values = <<>> THEN acc ELSE FoldXor(BigIntXor(acc, Head(values)), Tail(values))

\* reduce((a, b) => a ^ b) whose callback drops the accumulator
ReduceXorKeepsLast(values) == values[Len(values)]

\* Array.prototype.reduce((a, b) => a ^ b), without an initial value, on a
\* sequence that is not empty
ReduceXor(values) == FoldXor(Head(values), Tail(values))

\* the children that are instanceof FunctionDefinition, in order
vFunctionsOf(oc) == Filter(oc, Functions)

\* get vFunctions()
vFunctions(self) == vFunctionsOf(ownChildren[self])

NoInterfaceId == [k |-> "undefined", v |-> <<>>]
HexString(chars) == [k |-> "string", v |-> chars]

\* get interfaceId(), for a contract of kind knd whose ownChildren are oc
interfaceIdOf(knd, oc) ==
    LET fns == vFunctionsOf(oc) IN
    IF knd # "interface" THEN NoInterfaceId
    ELSE IF Len(fns) = 0
    THEN HexString(<<"0", "0", "0", "0", "0", "0", "0", "0">>)
    ELSE HexString(padStart(
            BigIntToString16(ReduceXor(
                [i \in 1..Len(fns) |-> BigIntFromHex(canonicalSignatureHash[fns[i]])])),
            8, "0"))

interfaceId(self) == interfaceIdOf(kind[self], ownChildren[self])

\* read self.interfaceId
GetInterfaceId(self) ==
    /\ last' = Call("interfaceId", self, Undefined, Undefined, "", interfaceId(self))
    /\ UNCHANGED <<ownChildren, docString, parent, scope, kind, linearizedBaseContracts, usedErrors, nativeVars,
                   registry, context>>

(***************************************************************************)
(* SpecInterface: a contract of any kind whose children are functions and  *)
(* a state variable, inserted, replaced and removed in any order.          *)
(***************************************************************************)
InterfacePool == {"F1", "F2", "F3", "V1"}

InitInterface ==
    /\ InitTree("c1", InterfacePool, {Undefined})
    /\ InitProgram
    /\ scope = [c \in Contracts |-> 10]
    /\ linearizedBaseContracts["c1"] = <<1>>
    /\ kind \in [Contracts -> ContractKinds]
    /\ kind["c2"] = "contract" /\ kind["c3"] = "contract"
    /\ usedErrors = [c \in Contracts |-> <<>>]

NextInterface ==
    \/ \E n \in InterfacePool : AppendChild("c1", n)
    \/ \E n \in InterfacePool : InsertAtBeginning("c1", n)
    \/ \E n, o \in InterfacePool : ReplaceChild("c1", n, o)
    \/ \E n \in InterfacePool : RemoveChild("c1", n)
    \/ GetInterfaceId("c1")

SpecInterface == InitInterface /\ [][NextInterface]_vars

(***************************************************************************)
(* Properties of interfaceId (under SpecInterface)                         *)
(***************************************************************************)
\* The orderings of a sequence.
Orderings(seq) ==
    {[i \in 1..Len(seq) |-> seq[f[i]]] : f \in Permutations(1..Len(seq))}

\* C9: every ordering of the children of an interface has the interfaceId the
\* getter returns; the selectors aabbccdd and 11223344 give bb99ff99 in
\* either order.
C9_OrderIndependent ==
    LET id == interfaceId("c1") IN
    /\ \A q \in Orderings(ownChildren["c1"]) : interfaceIdOf(kind["c1"], q) = id
    /\ (last.op = "interfaceId" /\ kind["c1"] = "interface"
          /\ vFunctions("c1") \in {<<"F1", "F2">>, <<"F2", "F1">>})
         => last.ret = HexString(<<"b", "b", "9", "9", "f", "f", "9", "9">>)

\* The id bb99ff99 was read with 11223344 declared before aabbccdd and a
\* state variable between them.
C9_Witness ==
    /\ last.op = "interfaceId" /\ kind["c1"] = "interface"
    /\ ownChildren["c1"] = <<"F2", "V1", "F1">>
    /\ last.ret = HexString(<<"b", "b", "9", "9", "f", "f", "9", "9">>)

\* The number of the functions fns whose selector has bit w (1, 2, 4 or 8)
\* set in its i-th hex digit.
BitCount(fns, i, w) ==
    Cardinality({j \in 1..Len(fns) :
        (HexValue(canonicalSignatureHash[fns[j]][i]) \div w) % 2 = 1})

\* The i-th hex digit of the XOR of the selectors of fns: each bit is the
\* parity of the functions that have it set.
XorDigit(fns, i) ==
    (BitCount(fns, i, 1) % 2) + 2 * (BitCount(fns, i, 2) % 2)
    + 4 * (BitCount(fns, i, 4) % 2) + 8 * (BitCount(fns, i, 8) % 2)

\* C10: interfaceId is undefined when kind is not interface; for an interface
\* it is a string of exactly 8 lowercase hex digits, the XOR of the selectors
\* of all functions in vFunctions, which is 00000000 when there is none.
C10_ReferenceValue ==
    LET id == interfaceId("c1")
        fns == vFunctions("c1")
    IN  /\ kind["c1"] # "interface" => id = NoInterfaceId
        /\ kind["c1"] = "interface" =>
              /\ id.k = "string"
              /\ Len(id.v) = 8
              /\ \A i \in 1..8 : id.v[i] = HexChars[XorDigit(fns, i) + 1]
              /\ fns = <<>> => id.v = <<"0", "0", "0", "0", "0", "0", "0", "0">>
        /\ last.op = "interfaceId" => last.ret = id

\* The id 00000003 was read: aabbccdd ^ aabbccde, whose BigInt has one digit.
C10_Witness ==
    /\ last.op = "interfaceId" /\ kind["c1"] = "interface"
    /\ vFunctions("c1") = <<"F1", "F3">>
    /\ last.ret = HexString(<<"0", "0", "0", "0", "0", "0", "0", "3">>)

(***************************************************************************)
(* The child views of a contract: each getter filters ownChildren by the   *)
(* class of the child.                                                     *)
(***************************************************************************)
\* get vInheritanceSpecifiers()
vInheritanceSpecifiers(self) == Filter(ownChildren[self], InstancesOf("InheritanceSpecifier"))

\* get vStateVariables()
vStateVariables(self) == Filter(ownChildren[self], InstancesOf("VariableDeclaration"))

\* get vModifiers()
vModifiers(self) == Filter(ownChildren[self], InstancesOf("ModifierDefinition"))

\* get vEvents() that filters by the class of the neighbouring getter
vEventsByErrorClass(self) == Filter(ownChildren[self], InstancesOf("ErrorDefinition"))

\* get vEvents()
vEvents(self) == Filter(ownChildren[self], InstancesOf("EventDefinition"))

\* get vErrors()
vErrors(self) == Filter(ownChildren[self], InstancesOf("ErrorDefinition"))

\* get vUsingForDirectives()
vUsingForDirectives(self) == Filter(ownChildren[self], InstancesOf("UsingForDirective"))

\* get vStructs()
vStructs(self) == Filter(ownChildren[self], InstancesOf("StructDefinition"))

\* get vEnums()
vEnums(self) == Filter(ownChildren[self], InstancesOf("EnumDefinition"))

\* get vUsedErrors() that filters the children as vErrors does
vUsedErrorsFromChildren(self) == Filter(ownChildren[self], InstancesOf("ErrorDefinition"))

\* get vUsedErrors(): the ids of usedErrors, each located in the context
vUsedErrors(self) == locateAll(requiredContext(self), usedErrors[self])

\* What the ten view getters return when read one after the other.
Views(self) ==
    [vInheritanceSpecifiers |-> vInheritanceSpecifiers(self),
     vStateVariables |-> vStateVariables(self),
     vModifiers |-> vModifiers(self),
     vEvents |-> vEvents(self),
     vErrors |-> vErrors(self),
     vFunctions |-> vFunctions(self),
     vUsingForDirectives |-> vUsingForDirectives(self),
     vStructs |-> vStructs(self),
     vEnums |-> vEnums(self),
     vUsedErrors |-> vUsedErrors(self)]

\* A read of every view of self.
GetViews(self) ==
    /\ last' = Call("views", self, Undefined, Undefined, "", Views(self))
    /\ UNCHANGED <<treeVars, scope, kind, linearizedBaseContracts, usedErrors, nativeVars,
                   registry, context>>

(***************************************************************************)
(* SpecViews: a contract whose children are taken from every class of      *)
(* declaration, mutated through the child operations and the               *)
(* documentation setter, and whose views are read at any moment.           *)
(***************************************************************************)
MaxViewChildren == 2

ViewPool == {"I1", "V1", "V2", "M1", "Ev1", "Er1", "Er2", "F1", "UF1", "S1", "En1", "D1"}
ViewDocValues == {Undefined, Str("desc"), Ref("D1")}

\* The children that are replaced or removed.
ViewTargets == {"Er1", "Ev1", "V1"}

\* The usedErrors list the compiler emitted for c1: the ids of the error
\* definitions it uses, Er2 (declared outside c1) and Er1.
UsedErrorsOfC1 == <<55, 54>>

InitViews ==
    /\ InitTree("c1", ViewPool, {Undefined})
    /\ InitProgram
    /\ scope = [c \in Contracts |-> 10]
    /\ linearizedBaseContracts["c1"] = <<1>>
    /\ kind = [c \in Contracts |-> "contract"]
    /\ usedErrors = [c \in Contracts |-> IF c = "c1" THEN UsedErrorsOfC1 ELSE <<>>]

NextViews ==
    \/ \E n \in ViewPool :
          Len(ownChildren["c1"]) < MaxViewChildren /\ AppendChild("c1", n)
    \/ \E n \in ViewPool :
          Len(ownChildren["c1"]) < MaxViewChildren /\ InsertAtBeginning("c1", n)
    \/ \E n \in ViewPool, o \in ViewTargets :
          IndexOf(ownChildren["c1"], o) # 0 /\ ReplaceChild("c1", n, o)
    \/ \E n \in ViewTargets :
          IndexOf(ownChildren["c1"], n) # 0 /\ RemoveChild("c1", n)
    \/ \E v \in ViewDocValues :
          /\ Len(setDocumentation(Tree("c1"), "c1", v).oc) <= MaxViewChildren
          /\ SetDocumentation("c1", v)
    \/ GetViews("c1")

SpecViews == InitViews /\ [][NextViews]_vars

\* The position in seq of the k-th element that belongs to S.
NthPosition(seq, S, k) ==
    CHOOSE p \in Positions(seq, S) : Cardinality({q \in Positions(seq, S) : q <= p}) = k

\* view holds exactly the children of c1 of class cls, in ownChildren order.
IsViewOf(view, cls) ==
    LET oc == ownChildren["c1"]
        S == InstancesOf(cls)
    IN  /\ Len(view) = Cardinality(Positions(oc, S))
        /\ \A k \in 1..Len(view) : view[k] = oc[NthPosition(oc, S, k)]

C12_AsStated == IsViewOf(vUsedErrors("c1"), "ErrorDefinition")

\* C12: vUsedErrors is the usedErrors id list located id by id in the
\* contract's context, in usedErrors order, whatever the children are; a read
\* returns it recomputed.
C12_UsedErrorsLocated ==
    LET v == vUsedErrors("c1")
        ids == usedErrors["c1"]
    IN  /\ Len(v) = Len(ids)
        /\ \A i \in 1..Len(ids) :
              /\ v[i] = locate(requiredContext("c1"), ids[i])
              /\ v[i] # Unresolved => NodeId[v[i]] = ids[i]
        /\ last.op = "views" => last.ret.vUsedErrors = v

\* The views were read while Er1 was the only child: vErrors holds Er1 alone,
\* vUsedErrors holds Er2, declared elsewhere, and then Er1.
C12_Witness ==
    /\ last.op = "views"
    /\ ownChildren["c1"] = <<"Er1">>
    /\ last.ret.vErrors = <<"Er1">>
    /\ last.ret.vUsedErrors = <<"Er2", "Er1">>

(***************************************************************************)
(* The documentation node that an assignment displaces (under Spec)        *)
(***************************************************************************)
\* The call just made assigned a string, or a different node, while the getter
\* returned a node.
DocNodeDisplaced(call) ==
    /\ call.op = "documentation" /\ call.self = "c1"
    /\ IsStructuredDocumentation(call.old)
    /\ \/ call.arg.k = "string"
       \/ (IsStructuredDocumentation(call.arg) /\ call.arg # call.old)

\* C13 as stated: after documentation is switched from a node D to a string or
\* to a different node, D has no parent, D is not among ownChildren, and the
\* registry still resolves D's id to D.
C13_AsStated ==
    DocNodeDisplaced(last) =>
        /\ parent[last.old.v] = NoParent
        /\ Positions(ownChildren["c1"], {last.old.v}) = {}
        /\ locate(requiredContext("c1"), NodeId[last.old.v]) = last.old.v

\* C13, amended: such an assignment clears D's parent link, takes one
\* occurrence of D out of ownChildren (so D is gone when it occurred once) and
\* leaves the registry as it was, where D's id still resolves to D.
C13_DetachedNotUnregistered ==
    [][\A D \in Docs : (DocNodeDisplaced(last') /\ last'.old = Ref(D)) =>
        /\ parent'[D] = NoParent
        /\ Cardinality(Positions(ownChildren["c1"]', {D})) =
               Cardinality(Positions(ownChildren["c1"], {D})) - 1
        /\ Cardinality(Positions(ownChildren["c1"], {D})) = 1
              => Positions(ownChildren["c1"]', {D}) = {}
        /\ registry' = registry
        /\ locate(requiredContext("c1"), NodeId[D])' = D]_vars

\* D1 was displaced by D2 with another child around: D1 has no parent, is not
\* a child any more, and its id still resolves to it.
C13_Witness ==
    /\ DocNodeDisplaced(last)
    /\ last.old = Ref("D1") /\ last.arg = Ref("D2")
    /\ parent["D1"] = NoParent
    /\ Positions(ownChildren["c1"], {"D1"}) = {}
    /\ Len(ownChildren["c1"]) >= 2
    /\ locate(requiredContext("c1"), NodeId["D1"]) = "D1"

\* C14: in every reachable state each element of vStateVariables is a direct
\* child of the contract, a VariableDeclaration, and has stateVariable true.
C14_OnlyStateVariables ==
    \A i \in 1..Len(vStateVariables("c1")) :
        LET v == vStateVariables("c1")[i] IN
        /\ Positions(ownChildren["c1"], {v}) # {}
        /\ NodeType[v] = "VariableDeclaration"
        /\ stateVariable[v]

(***************************************************************************)
(* The round trip of vScope (under SpecContext)                            *)
(***************************************************************************)
\* C15: whenever c.vScope = v has completed without error, a read of c.vScope
\* that follows at once returns the node v itself.
C15_RoundTrip ==
    (last.op = "vScope" /\ last.err = "") => vScope(last.self) = last.arg.v

(***************************************************************************)
(* NativeCompiler.compile: the compiler runs as a child process; its       *)
(* standard output and standard error arrive in chunks, then the process   *)
(* closes with an exit code (null when a signal ended it).                 *)
(*   child.out, child.err        what the process has written              *)
(*   child.stdout, child.stderr  the locals the data handlers accumulate   *)
(*   child.promise, child.value  the promise returned by compile()         *)
(*   child.settled               the calls of resolve and reject so far    *)
(***************************************************************************)
MaxOutput == 3

StdoutChunks == {<<"{">>, <<"}">>, <<"{", "}">>, <<"1">>}
StderrChunks == {<<"w">>}
ExitCodes == {"0", "1", "null"}

\* JSON.parse on the texts the chunks can make up: {} is an object, a run of
\* digits is a number, anything else (the empty text, a lone brace, a digit
\* beside a brace) is a SyntaxError.
JSONparse(text) ==
    IF text = <<"{", "}">> THEN [ok |-> TRUE, value |-> [k |-> "object", v |-> <<>>]]
    ELSE IF text # <<>> /\ \A i \in 1..Len(text) : text[i] = "1"
         THEN [ok |-> TRUE, value |-> [k |-> "number", v |-> text]]
    ELSE [ok |-> FALSE, value |-> [k |-> "SyntaxError", v |-> text]]

\* resolve(value) or reject(value): the first call settles the promise, a
\* later one has no effect.
settle(c, how, value) ==
    IF c.promise = "pending"
    THEN [c EXCEPT !.promise = how, !.value = value, !.settled = @ + 1]
    ELSE [c EXCEPT !.settled = @ + 1]

\* the "close" handler without the test of stderr
onCloseIgnoresStderr(c, code) ==
    IF code # "0" THEN settle(c, "rejected", [k |-> "exit", v |-> c.stderr])
    ELSE IF ~JSONparse(c.stdout).ok THEN settle(c, "rejected", JSONparse(c.stdout).value)
    ELSE settle(c, "resolved", JSONparse(c.stdout).value)

\* child.on("close", (code) => ...)
onClose(c, code) ==
    IF code # "0" THEN settle(c, "rejected", [k |-> "exit", v |-> c.stderr])
    ELSE IF c.stderr # <<>> THEN settle(c, "rejected", [k |-> "stderr", v |-> c.stderr])
    ELSE IF ~JSONparse(c.stdout).ok THEN settle(c, "rejected", JSONparse(c.stdout).value)
    ELSE settle(c, "resolved", JSONparse(c.stdout).value)

AstIdle ==
    /\ ownChildren = [c \in Contracts |-> <<>>]
    /\ docString = [c \in Contracts |-> Undefined]
    /\ parent = [n \in ChildNodes |-> NoParent]
    /\ scope = [c \in Contracts |-> 10]
    /\ kind = [c \in Contracts |-> "contract"]
    /\ linearizedBaseContracts = [c \in Contracts |-> <<NodeId[c]>>]
    /\ usedErrors = [c \in Contracts |-> <<>>]
    /\ registry = InitRegistry
    /\ context = InitContext

astVars == <<ownChildren, docString, parent, scope, kind, linearizedBaseContracts,
             usedErrors, registry, context>>

\* compile(inputJson): the process is spawned, the input written to its
\* standard input, the handlers installed and the promise returned.
Compile ==
    /\ child.phase = "none"
    /\ child' = [child EXCEPT !.phase = "running", !.promise = "pending"]
    /\ last' = Call("compile", "", Undefined, Undefined, "", FALSE)
    /\ UNCHANGED <<astVars, host, cache>>

\* child.stdout.on("data", ...)
StdoutData(data) ==
    /\ child.phase = "running"
    /\ Len(child.out) + Len(data) <= MaxOutput
    /\ child' = [child EXCEPT !.out = @ \o data, !.stdout = @ \o data]
    /\ last' = Call("stdout.data", "", Str(data), Undefined, "", FALSE)
    /\ UNCHANGED <<astVars, host, cache>>

\* child.stderr.on("data", ...)
StderrData(data) ==
    /\ child.phase = "running"
    /\ Len(child.err) + Len(data) <= MaxOutput
    /\ child' = [child EXCEPT !.err = @ \o data, !.stderr = @ \o data]
    /\ last' = Call("stderr.data", "", Str(data), Undefined, "", FALSE)
    /\ UNCHANGED <<astVars, host, cache>>

\* The process has ended and its streams are closed: "close" is emitted, once.
Close(code) ==
    /\ child.phase = "running"
    /\ child' = [onClose(child, code) EXCEPT !.phase = "closed", !.code = code]
    /\ last' = Call("close", "", Str(code), Undefined, "", FALSE)
    /\ UNCHANGED <<astVars, host, cache>>

InitCompile ==
    /\ AstIdle
    /\ NativeIdle
    /\ last = Call("new", "", Undefined, Undefined, "", <<>>)

NextCompile ==
    \/ Compile
    \/ \E data \in StdoutChunks : StdoutData(data)
    \/ \E data \in StderrChunks : StderrData(data)
    \/ \E code \in ExitCodes : Close(code)

SpecCompile == InitCompile /\ [][NextCompile]_vars

\* C16: the promise of compile() is pending until "close" and settled by it,
\* by exactly one call of resolve or reject, on everything the process wrote;
\* it resolves, with the parsed standard output, exactly when the exit code is
\* 0, standard error is empty and standard output parses as JSON, and rejects
\* in every other case; once settled it does not change.
C16_SettlesOnceOnClose ==
    /\ [](child.phase = "running" => (child.promise = "pending" /\ child.settled = 0))
    /\ [](child.phase = "closed" =>
            /\ child.settled = 1
            /\ child.stdout = child.out /\ child.stderr = child.err
            /\ child.promise \in {"resolved", "rejected"}
            /\ child.promise = "resolved" <=>
                  (child.code = "0" /\ child.err = <<>> /\ JSONparse(child.out).ok)
            /\ child.promise = "resolved" => child.value = JSONparse(child.out).value)
    /\ [][child.promise \in {"resolved", "rejected"} =>
            (child'.promise = child.promise /\ child'.value = child.value)]_vars

\* The compiler wrote {} in two chunks and closed with code 0: the promise is
\* resolved with the object.
C16_Witness ==
    /\ child.phase = "closed" /\ child.code = "0"
    /\ child.out = <<"{", "}">> /\ child.err = <<>>
    /\ last.op = "close"
    /\ child.promise = "resolved"
    /\ child.value = [k |-> "object", v |-> <<>>]

(***************************************************************************)
(* getNativeCompilerForVersion and the cache directory                     *)
(*   host          os.arch(), os.type(), and whether the process may write *)
(*                 a file whose mode denies it (a POSIX superuser)         *)
(*   cache.files   path -> [mode, data], the files under CACHE_DIR; a path *)
(*                 is <<prefix, file name>>                                *)
(*   cache.calls   the calls made so far, each with its position (pc), the *)
(*                 requests it sent (reqs), the files it wrote (writes)    *)
(*                 and what its promise settled to (ret)                   *)
(***************************************************************************)
MaxCalls == 3

Archs == {"x64", "ia64", "arm64"}
OsTypes == {"Linux", "Windows_NT", "Darwin", "FreeBSD"}
SupportedOsTypes == {"Linux", "Windows_NT", "Darwin"}
NoPrefix == "undefined"

\* getCompilerPrefixForOs(), for what os.arch() and os.type() return
getCompilerPrefixForOs(arch, type) ==
    IF arch # "x64" /\ arch # "ia64" THEN NoPrefix
    ELSE IF type = "Linux" THEN "linux-amd64"
    ELSE IF type = "Windows_NT" THEN "windows-amd64"
    ELSE IF type = "Darwin" THEN "windows-amd64"
    ELSE NoPrefix

Versions == {"0.8.0", "0.8.99"}

\* What BINARIES_URL serves as <prefix>/list.json: the releases of the
\* platform, version -> file name.  0.8.99 was never released.
ServerList == [p \in {"linux-amd64", "windows-amd64"} |->
    [releases |-> ("0.8.0" :> IF p = "linux-amd64" THEN "solc-linux-amd64-v0.8.0"
                              ELSE "solc-windows-amd64-v0.8.0.exe")]]

ListPath(prefix) == <<prefix, "list.json">>

ReadExecOnly == 365   \* 0o555
DefaultMode == 438    \* 0o666

existsSync(files, path) == path \in DOMAIN files

\* The owner may write the file.
Writable(file) == (file.mode \div 128) % 2 = 1

Pending == [k |-> "pending", v |-> <<>>]
ReturnedUndefined == [k |-> "undefined", v |-> <<>>]
Rejected(e) == [k |-> "rejected", v |-> <<e>>]
NativeCompiler(version, path) == [k |-> "NativeCompiler", v |-> path]

\* The calls that have returned a NativeCompiler for version.
Served(calls, version) ==
    {i \in 1..Len(calls) : calls[i].version = version /\ calls[i].ret.k = "NativeCompiler"}

\* getNativeCompilerForVersion(version) up to its first await: the prefix is
\* computed and getCompilerMDForPlatform either reads the cached list or sends
\* the request for it.
startCall(c, h, version) ==
    LET prefix == getCompilerPrefixForOs(h.arch, h.type)
        call == [version |-> version, prefix |-> prefix, pc |-> "done",
                 md |-> <<>>, reqs |-> <<>>, writes |-> <<>>,
                 after |-> Served(c.calls, version), ret |-> ReturnedUndefined]
    IN  IF prefix = NoPrefix THEN [c EXCEPT !.calls = Append(@, call)]
        ELSE IF existsSync(c.files, ListPath(prefix))
        THEN [c EXCEPT !.calls = Append(@, [call EXCEPT !.pc = "awaitMD", !.ret = Pending,
                                                      !.md = c.files[ListPath(prefix)].data])]
        ELSE [c EXCEPT !.calls = Append(@, [call EXCEPT !.pc = "awaitList", !.ret = Pending,
                                                      !.reqs = <<ListPath(prefix)>>])]

\* getCompilerMDForPlatform after `await httpsGet`: the list is parsed and
\* written to the cache; a failed response rejects the call.
listReceived(c, i, ok) ==
    LET call == c.calls[i]
        md == ServerList[call.prefix]
    IN  IF ~ok THEN [c EXCEPT !.calls[i].pc = "done", !.calls[i].ret = Rejected("list")]
        ELSE [c EXCEPT !.files = (ListPath(call.prefix) :> [mode |-> DefaultMode, data |-> md]) @@ @,
                       !.calls[i].md = md,
                       !.calls[i].writes = Append(@, ListPath(call.prefix)),
                       !.calls[i].pc = "awaitMD"]

\* The continuation after `await getCompilerMDForPlatform` that requests the
\* binary without looking for it in the cache
resumeAlwaysDownloads(c, i) ==
    LET call == c.calls[i] IN
    IF call.version \in DOMAIN call.md.releases
    THEN LET compilerLocalPath == <<call.prefix, call.md.releases[call.version]>>
         IN  [c EXCEPT !.calls[i].pc = "awaitBinary",
                       !.calls[i].reqs = Append(@, compilerLocalPath)]
    ELSE [c EXCEPT !.calls[i].pc = "done", !.calls[i].ret = ReturnedUndefined]

\* getNativeCompilerForVersion after `await getCompilerMDForPlatform`, up to
\* its return or to `await httpsGet`.
resume(c, i) ==
    LET call == c.calls[i] IN
    IF call.version \in DOMAIN call.md.releases
    THEN LET compilerLocalPath == <<call.prefix, call.md.releases[call.version]>>
         IN  IF ~existsSync(c.files, compilerLocalPath)
             THEN [c EXCEPT !.calls[i].pc = "awaitBinary",
                            !.calls[i].reqs = Append(@, compilerLocalPath)]
             ELSE [c EXCEPT !.calls[i].pc = "done",
                            !.calls[i].ret = NativeCompiler(call.version, compilerLocalPath)]
    ELSE [c EXCEPT !.calls[i].pc = "done", !.calls[i].ret = ReturnedUndefined]

\* getNativeCompilerForVersion after `await httpsGet`: writeFileSync with mode
\* 0o555 creates the file; on a file that exists it keeps the file's mode and
\* fails with EACCES unless the owner may write it or the process is
\* privileged.  A failed response rejects the call.
binaryReceived(c, h, i, ok) ==
    LET call == c.calls[i]
        compilerLocalPath == call.reqs[Len(call.reqs)]
    IN  IF ~ok THEN [c EXCEPT !.calls[i].pc = "done", !.calls[i].ret = Rejected("binary")]
        ELSE IF ~existsSync(c.files, compilerLocalPath)
        THEN [c EXCEPT !.files = (compilerLocalPath :> [mode |-> ReadExecOnly, data |-> "solc"]) @@ @,
                       !.calls[i].writes = Append(@, compilerLocalPath),
                       !.calls[i].pc = "done",
                       !.calls[i].ret = NativeCompiler(call.version, compilerLocalPath)]
        ELSE IF Writable(c.files[compilerLocalPath]) \/ h.root
        THEN [c EXCEPT !.calls[i].writes = Append(@, compilerLocalPath),
                       !.calls[i].pc = "done",
                       !.calls[i].ret = NativeCompiler(call.version, compilerLocalPath)]
        ELSE [c EXCEPT !.calls[i].pc = "done", !.calls[i].ret = Rejected("EACCES")]

\* getNativeCompilerForVersion(version) is called.
GetNativeCompilerForVersion(version) ==
    /\ Len(cache.calls) < MaxCalls
    /\ cache' = startCall(cache, host, version)
    /\ last' = Call("getNativeCompilerForVersion", "", Str(version), Undefined, "", FALSE)
    /\ UNCHANGED <<astVars, child, host>>

\* The response to call i's request for list.json has ended (ok) or failed.
ListResponse(i, ok) ==
    /\ cache.calls[i].pc = "awaitList"
    /\ cache' = listReceived(cache, i, ok)
    /\ last' = Call("listResponse", "", Str(cache.calls[i].version), Undefined,
                    IF ok THEN "" ELSE "error", i)
    /\ UNCHANGED <<astVars, child, host>>

\* Call i resumes with the metadata.
Resume(i) ==
    /\ cache.calls[i].pc = "awaitMD"
    /\ cache' = resume(cache, i)
    /\ last' = Call("resume", "", Str(cache.calls[i].version), Undefined, "", i)
    /\ UNCHANGED <<astVars, child, host>>

\* The response to call i's request for the binary has ended (ok) or failed.
BinaryResponse(i, ok) ==
    /\ cache.calls[i].pc = "awaitBinary"
    /\ cache' = binaryReceived(cache, host, i, ok)
    /\ last' = Call("binaryResponse", "", Str(cache.calls[i].version), Undefined,
                    IF ok THEN "" ELSE "error", i)
    /\ UNCHANGED <<astVars, child, host>>

(***************************************************************************)
(* SpecCache: calls of getNativeCompilerForVersion on any host, starting   *)
(* from an empty cache directory; a call may start while earlier ones are  *)
(* still waiting for a response.                                           *)
(***************************************************************************)
InitCache ==
    /\ AstIdle
    /\ child = NoChild
    /\ host \in [arch : Archs, type : OsTypes, root : BOOLEAN]
    /\ host.type = "Windows_NT" => ~host.root
    /\ cache = ColdCache
    /\ last = Call("new", "", Undefined, Undefined, "", <<>>)

NextCache ==
    \/ \E version \in Versions : GetNativeCompilerForVersion(version)
    \/ \E i \in 1..Len(cache.calls), ok \in BOOLEAN : ListResponse(i, ok)
    \/ \E i \in 1..Len(cache.calls) : Resume(i)
    \/ \E i \in 1..Len(cache.calls), ok \in BOOLEAN : BinaryResponse(i, ok)

SpecCache == InitCache /\ [][NextCache]_vars

\* The requests call i has sent in the state whose cache is c.
ReqsOf(c, i) == IF i <= Len(c.calls) THEN c.calls[i].reqs ELSE <<>>

IsBinary(path) == path[2] # "list.json"

\* A request is sent only for a file that the cache does not hold.
FetchOnlyWhenAbsent ==
    \A i \in 1..Len(cache'.calls) :
        Len(ReqsOf(cache', i)) > Len(ReqsOf(cache, i)) =>
            ~existsSync(cache.files, ReqsOf(cache', i)[Len(ReqsOf(cache', i))])

\* A call that started after a call for the same version had returned a
\* NativeCompiler sends no request, is not rejected, and returns a
\* NativeCompiler with the same local path.
ServedFromCache ==
    \A j \in 1..Len(cache.calls) :
        LET call == cache.calls[j] IN
        call.after # {} =>
            /\ call.reqs = <<>> /\ call.writes = <<>>
            /\ call.ret.k \in {"pending", "NativeCompiler"}
            /\ call.ret.k = "NativeCompiler" =>
                  \A i \in call.after : cache.calls[i].ret = call.ret

\* A call on an unsupported platform returns undefined at once; a call for a
\* version that is not among the releases returns undefined (or is rejected,
\* when the list could not be fetched); neither requests or writes a binary.
NothingForUnsupported ==
    \A j \in 1..Len(cache.calls) :
        LET call == cache.calls[j] IN
        /\ getCompilerPrefixForOs(host.arch, host.type) = NoPrefix =>
              (call.pc = "done" /\ call.ret = ReturnedUndefined
                  /\ call.reqs = <<>> /\ call.writes = <<>>)
        /\ (call.prefix # NoPrefix
              /\ call.version \notin DOMAIN ServerList[call.prefix].releases) =>
              /\ call.pc = "done" =>
                    \/ call.ret = ReturnedUndefined
                    \/ (call.ret = Rejected("list") /\ call.reqs = <<ListPath(call.prefix)>>)
              /\ \A k \in 1..Len(call.reqs) : ~IsBinary(call.reqs[k])
              /\ \A k \in 1..Len(call.writes) : ~IsBinary(call.writes[k])

\* C17: the platform list and a compiler binary are requested only when the
\* cache does not hold the file; once a call for a version has returned a
\* NativeCompiler, every call for that version that starts later sends no
\* request and returns a compiler with the same local path; an unsupported
\* platform, or a version that is not in `releases`, yields undefined with no
\* binary requested or written.
C17_DownloadOnce ==
    /\ [][FetchOnlyWhenAbsent]_vars
    /\ []ServedFromCache
    /\ []NothingForUnsupported

\* The first call fetched the list and the binary and returned; the second,
\* started after that, returned the same compiler without any request.
C17_Witness ==
    /\ Len(cache.calls) = 2
    /\ cache.calls[1].reqs = <<ListPath("linux-amd64"), <<"linux-amd64", "solc-linux-amd64-v0.8.0">>>>
    /\ cache.calls[2].after = {1}
    /\ cache.calls[2].pc = "done"
    /\ cache.calls[2].reqs = <<>>
    /\ cache.calls[2].ret = NativeCompiler("0.8.0", <<"linux-amd64", "solc-linux-amd64-v0.8.0">>)
    /\ cache.calls[1].ret = cache.calls[2].ret

\* How often path occurs in the logs (reqs or writes) of all calls.
Requested(path) ==
    Cardinality({p \in (1..Len(cache.calls)) \X (1..2) :
        /\ p[2] <= Len(cache.calls[p[1]].reqs)
        /\ cache.calls[p[1]].reqs[p[2]] = path})

Written(path) ==
    Cardinality({p \in (1..Len(cache.calls)) \X (1..2) :
        /\ p[2] <= Len(cache.calls[p[1]].writes)
        /\ cache.calls[p[1]].writes[p[2]] = path})

BinaryPaths ==
    {<<p, ServerList[p].releases[v]>> : p \in DOMAIN ServerList, v \in {"0.8.0"}}

\* C18: however calls of getNativeCompilerForVersion for the same version
\* overlap, the binary is requested at most once and written at most once, and
\* no call fails on a binary that another call has created.
C18_DownloadedOnce ==
    /\ \A path \in BinaryPaths : Requested(path) <= 1 /\ Written(path) <= 1
    /\ \A i \in 1..Len(cache.calls) : cache.calls[i].ret # Rejected("EACCES")

\* C19: the prefix a call computed is undefined when the architecture is
\* neither x64 nor ia64 or the OS type is not supported; otherwise it is a
\* prefix of the host's own OS, one that no other supported OS type maps to.
C19_PrefixIdentifiesHost ==
    \A i \in 1..Len(cache.calls) :
        LET prefix == cache.calls[i].prefix IN
        IF host.arch \notin {"x64", "ia64"} \/ host.type \notin SupportedOsTypes
        THEN prefix = NoPrefix
        ELSE /\ prefix # NoPrefix
             /\ \A t \in SupportedOsTypes \ {host.type} :
                   getCompilerPrefixForOs(host.arch, t) # prefix

====
